---- MODULE Spec2Model ----
(***************************************************************************)
(* Model of streamlit_app.py: the attendance accounting engine of the      *)
(* TimeCamp employee status page.                                          *)
(*                                                                         *)
(* Dates are records [year, month, day]; strftime("%Y-%m-%d") is the       *)
(* triple <<year, month, day>> (the holiday mapping is keyed by it).       *)
(* Hour amounts are exact multiples of 1/3600 hour, i.e. they are kept in  *)
(* seconds: 8.5 hours is 30600, 11.5 hours is 41400.  Floating point       *)
(* rounding of total_seconds / 3600 is not modelled.                       *)
(***************************************************************************)
EXTENDS Integers, Sequences, FiniteSets, TLC

\* ------------------------------------------------------------------ bounds
\* "today" is one of the first MaxDay days of the current month, so a month
\* request (capped at today) enumerates at most MaxDay candidate dates.
MaxDay == 4

\* ------------------------------------------------------- program constants
SecondsPerHour == 3600

\* ---------------------------------------------------------------- calendar
MkDate(y, m, d) == [year |-> y, month |-> m, day |-> d]

IsLeap(y) == (y % 4 = 0) /\ ((y % 100 # 0) \/ (y % 400 = 0))

DaysInMonth(y, m) ==
    IF m = 2 THEN (IF IsLeap(y) THEN 29 ELSE 28)
    ELSE IF m \in {4, 6, 9, 11} THEN 30 ELSE 31

DaysBeforeYear(y) ==
    (y - 1) * 365 + ((y - 1) \div 4) - ((y - 1) \div 100) + ((y - 1) \div 400)

RECURSIVE DaysBeforeMonth(_, _)
DaysBeforeMonth(y, m) ==
    IF m = 1 THEN 0 ELSE DaysBeforeMonth(y, m - 1) + DaysInMonth(y, m - 1)

\* date.toordinal(): 0001-01-01 is day 1
toordinal(date) ==
    DaysBeforeYear(date.year) + DaysBeforeMonth(date.year, date.month) + date.day

\* date.weekday(): Monday is 0, Sunday is 6
weekday(date) == (toordinal(date) + 6) % 7

\* date + timedelta(days=1)
NextDay(date) ==
    IF date.day < DaysInMonth(date.year, date.month)
    THEN MkDate(date.year, date.month, date.day + 1)
    ELSE IF date.month < 12
         THEN MkDate(date.year, date.month + 1, 1)
         ELSE MkDate(date.year + 1, 1, 1)

\* date - timedelta(days=1)
PrevDay(date) ==
    IF date.day > 1
    THEN MkDate(date.year, date.month, date.day - 1)
    ELSE IF date.month > 1
         THEN MkDate(date.year, date.month - 1, DaysInMonth(date.year, date.month - 1))
         ELSE MkDate(date.year - 1, 12, 31)

\* date + timedelta(days=n), n >= 0
RECURSIVE AddDays(_, _)
AddDays(date, n) == IF n = 0 THEN date ELSE AddDays(NextDay(date), n - 1)

\* date.strftime("%Y-%m-%d")
strftime(date) == <<date.year, date.month, date.day>>

\* df["Date"].dt.day_name()
day_name(date) ==
    <<"Monday", "Tuesday", "Wednesday", "Thursday", "Friday", "Saturday", "Sunday">>
        [weekday(date) + 1]

\* ------------------------------------------------ Calendar Policy Resolver
is_holiday_eve(date, il_holidays) ==
    LET next_day == NextDay(date)
        next_day_str == strftime(next_day)
    IN  next_day_str \in il_holidays

\* Variant: the short weekday is looked at before the holiday eve.
get_required_hours_ThursdayFirst(date, il_holidays) ==
    LET date_str == strftime(date)
    IN  IF weekday(date) \in {4, 5} THEN 0
        ELSE IF date_str \in il_holidays THEN 0
        ELSE IF weekday(date) = 3 THEN 8 * SecondsPerHour
        ELSE IF is_holiday_eve(date, il_holidays) THEN (15 * SecondsPerHour) \div 2
        ELSE (17 * SecondsPerHour) \div 2

get_required_hours(date, il_holidays) ==
    LET date_str == strftime(date)
    IN  IF weekday(date) \in {4, 5} THEN 0
        ELSE IF date_str \in il_holidays THEN 0
        ELSE IF is_holiday_eve(date, il_holidays) THEN (15 * SecondsPerHour) \div 2
        ELSE IF weekday(date) = 3 THEN 8 * SecondsPerHour
        ELSE (17 * SecondsPerHour) \div 2

\* ------------------------------------------------------------ environment
\* The clock: datetime.now() falls on one of the first MaxDay days of
\* October 2024 (2024-10-01 is a Tuesday, so the days are Tue, Wed, Thu, Fri,
\* Sat, Sun, ...).
Clock == {MkDate(2024, 10, d) : d \in 1..MaxDay}

\* Holiday Calendar Provider: what holidays.IL(years=year) may hold, as the
\* set of "%Y-%m-%d" keys of the mapping (names are only displayed).
HolidaySets == SUBSET {strftime(MkDate(2024, 10, 1)),
                       strftime(MkDate(2024, 10, 3)),
                       strftime(MkDate(2024, 10, 4))}

\* Dates the date_input widgets may hold.
StartDates == Clock
EndDates == Clock \cup {MkDate(2024, 11, 1)}

\* Entry Source: the JSON bodies a 200 answer may carry for one date.
Entry(d, n) == [duration |-> d, name |-> n]
EntryLists == { <<>>,
                <<Entry(30600, "dev")>>,
                <<Entry(21600, ""), Entry(21600, "qa")>>,
                <<Entry(-36000, "fix")>> }
StatusCodes == {200, 401}

\* ------------------------------------------------------ optional values
None == [present |-> FALSE, value |-> 0]
Some(v) == [present |-> TRUE, value |-> v]
notnull(h) == h.present
fillna0(h) == IF h.present THEN h.value ELSE 0
abs(x) == IF x < 0 THEN -x ELSE x

\* --------------------------------------------------------- Daily Aggregator
RECURSIVE SumDurations(_)
SumDurations(entries) ==
    IF entries = <<>> THEN 0
    ELSE Head(entries).duration + SumDurations(Tail(entries))

RECURSIVE TaskNames(_)
TaskNames(entries) ==
    IF entries = <<>> THEN <<>>
    ELSE IF Head(entries).name # ""
         THEN <<Head(entries).name>> \o TaskNames(Tail(entries))
         ELSE TaskNames(Tail(entries))

\* get_work_hours_and_tasks once requests.get has returned a response
get_work_hours_and_tasks(response) ==
    IF response.status_code = 200
    THEN [Hours |-> Some(SumDurations(response.entries)),
          Tasks |-> TaskNames(response.entries)]
    ELSE [Hours |-> None, Tasks |-> <<>>]

\* ------------------------------------------------------- date enumeration
last_day_of(year, month, now) ==
    IF year = now.year /\ month = now.month
    THEN now
    ELSE IF month < 12
         THEN PrevDay(MkDate(year, (month % 12) + 1, 1))
         ELSE PrevDay(MkDate(year + 1, 1, 1))

date_range(year, month, now) ==
    LET first_day == MkDate(year, month, 1)
        last_day == last_day_of(year, month, now)
        n == (toordinal(last_day) - toordinal(first_day)) + 1
    IN  [k \in 1..(IF n > 0 THEN n ELSE 0) |-> AddDays(first_day, k - 1)]

\* ------------------------------------------------------------------ state
VARIABLES
    pc,               \* "input", "fetch_loop", "fetched", "done"
    now,              \* datetime.now()
    provider,         \* what the Holiday Calendar Provider answers
    api_key,          \* sidebar text input
    year, month,      \* sidebar select boxes
    use_custom_date,  \* sidebar checkbox
    start_date, end_date,   \* sidebar date inputs
    fetch_year, fetch_month,  \* fetch_data's year and month arguments
    il_holidays,      \* fetch_data's holiday mapping (its keys)
    i,                \* dates of date_range the loop has gone through
    results,          \* fetch_data's results list
    calls,            \* Entry Source invocations so far: date and answer
    df,               \* the frame fetch_data returned
    shown,            \* main's df, after the custom range filter
    summary,          \* the metrics main computed
    outcome           \* "none", "no_api_key", "report", "error", "exception"

vars == <<pc, now, provider, api_key, year, month, use_custom_date, start_date,
          end_date, fetch_year, fetch_month, il_holidays, i, results, calls,
          df, shown, summary, outcome>>

NoSummary == [total_hours |-> 0, final_balance |-> 0, missing_hours |-> 0,
              warning_days |-> 0, days |-> 0]

\* ---------------------------------------------------------- Balance Ledger
\* df.sort_values("Date"): insertion of each row behind the rows that are
\* not later than it
RECURSIVE InsertByDate(_, _)
InsertByDate(row, rows) ==
    IF rows = <<>> THEN <<row>>
    ELSE IF toordinal(row.Date) < toordinal(Head(rows).Date)
         THEN <<row>> \o rows
         ELSE <<Head(rows)>> \o InsertByDate(row, Tail(rows))

RECURSIVE sort_values(_)
sort_values(rows) ==
    IF rows = <<>> THEN <<>>
    ELSE InsertByDate(rows[Len(rows)], sort_values(SubSeq(rows, 1, Len(rows) - 1)))

\* Series.cumsum(): the k-th value of the cumulative sum of a column
RECURSIVE cumsum(_, _)
cumsum(col, k) == IF k = 0 THEN 0 ELSE cumsum(col, k - 1) + col[k]

\* df["Daily Difference"] = df["Hours"].fillna(0) - df["Required Hours"]
DailyDifference(row) == fillna0(row.Hours) - row.RequiredHours

\* Variant: the sign of the target trajectory is lost.
TargetBalance_Positive(req, k) == cumsum(req, k)

\* df["Target Balance"] = -df["Required Hours"].cumsum()
TargetBalance(req, k) == -cumsum(req, k)

\* Variant: absent hours are not told from zero hours.
Status_NoNullCheck(row) ==
    IF (   (row.RunningBalance >= row.TargetBalance
            /\ row.Hours.value <= (23 * SecondsPerHour) \div 2)
        \/ (row.RunningBalance < row.TargetBalance
            /\ row.Hours.value >= row.RequiredHours))
    THEN "OK"
    ELSE "Warning"

\* Variant: the balance is compared with zero, as calculate_running_balance
\* does, and not with the target balance.
Status_ZeroTarget(row) ==
    IF notnull(row.Hours)
       /\ (   (row.RunningBalance >= 0
               /\ row.Hours.value <= (23 * SecondsPerHour) \div 2)
           \/ (row.RunningBalance < 0
               /\ row.Hours.value >= row.RequiredHours))
    THEN "OK"
    ELSE "Warning"

\* the lambda of df.apply(..., axis=1) that sets df["Status"]
Status(row) ==
    IF notnull(row.Hours)
       /\ (   (row.RunningBalance >= row.TargetBalance
               /\ row.Hours.value <= (23 * SecondsPerHour) \div 2)
           \/ (row.RunningBalance < row.TargetBalance
               /\ row.Hours.value >= row.RequiredHours))
    THEN "OK"
    ELSE "Warning"

\* Variant: the shortfall is the negative running balance of the last row, as
\* calculate_running_balance has it.
MissingHours_BelowZero(rows, k) ==
    LET final_balance == rows[Len(rows)].RunningBalance
    IN  IF k = Len(rows) /\ final_balance < 0 THEN abs(final_balance) ELSE 0

\* df["Missing Hours"]: 0 on all rows, abs(final_gap) on the last one when
\* final_gap < 0
MissingHours(rows, k) ==
    LET final_gap == rows[Len(rows)].RunningBalance - rows[Len(rows)].TargetBalance
    IN  IF k = Len(rows) /\ final_gap < 0 THEN abs(final_gap) ELSE 0

\* fetch_data after its loop: the frame built from a non-empty results list
BuildFrame(res) ==
    LET sorted == sort_values(res)
        dd == [k \in 1..Len(sorted) |-> DailyDifference(sorted[k])]
        req == [k \in 1..Len(sorted) |-> sorted[k].RequiredHours]
        bal == [k \in 1..Len(sorted) |->
                  [Date |-> sorted[k].Date,
                   Hours |-> sorted[k].Hours,
                   Tasks |-> sorted[k].Tasks,
                   RequiredHours |-> sorted[k].RequiredHours,
                   Day |-> day_name(sorted[k].Date),
                   DailyDifference |-> dd[k],
                   RunningBalance |-> cumsum(dd, k),
                   TargetBalance |-> TargetBalance(req, k)]]
        st == [k \in 1..Len(bal) |->
                  [Date |-> bal[k].Date,
                   Hours |-> bal[k].Hours,
                   Tasks |-> bal[k].Tasks,
                   RequiredHours |-> bal[k].RequiredHours,
                   Day |-> bal[k].Day,
                   DailyDifference |-> bal[k].DailyDifference,
                   RunningBalance |-> bal[k].RunningBalance,
                   TargetBalance |-> bal[k].TargetBalance,
                   Status |-> Status(bal[k])]]
    IN  [k \in 1..Len(st) |->
            [Date |-> st[k].Date,
             Hours |-> st[k].Hours,
             Tasks |-> st[k].Tasks,
             RequiredHours |-> st[k].RequiredHours,
             Day |-> st[k].Day,
             DailyDifference |-> st[k].DailyDifference,
             RunningBalance |-> st[k].RunningBalance,
             TargetBalance |-> st[k].TargetBalance,
             Status |-> st[k].Status,
             MissingHours |-> MissingHours(st, k)]]

\* ------------------------------------------------------------------- main
\* df[(df["Date"].dt.date >= start_date) & (df["Date"].dt.date <= end_date)]
RECURSIVE FilterRange(_, _, _)
FilterRange(rows, sd, ed) ==
    IF rows = <<>> THEN <<>>
    ELSE IF toordinal(Head(rows).Date) >= toordinal(sd)
            /\ toordinal(Head(rows).Date) <= toordinal(ed)
         THEN <<Head(rows)>> \o FilterRange(Tail(rows), sd, ed)
         ELSE FilterRange(Tail(rows), sd, ed)

\* df["Hours"].sum(): absent values are skipped
RECURSIVE SumHours(_)
SumHours(rows) ==
    IF rows = <<>> THEN 0 ELSE fillna0(Head(rows).Hours) + SumHours(Tail(rows))

Summarise(rows) ==
    LET final_balance == rows[Len(rows)].RunningBalance
    IN  [total_hours |-> SumHours(rows),
         final_balance |-> final_balance,
         missing_hours |-> IF final_balance < 0 THEN abs(final_balance) ELSE 0,
         warning_days |-> Cardinality({k \in 1..Len(rows) : rows[k].Status = "Warning"}),
         days |-> Len(rows)]

\* ---------------------------------------------------------------- actions
Init ==
    /\ pc = "input"
    /\ now \in Clock
    /\ provider \in HolidaySets
    /\ api_key = ""
    /\ year = now.year
    /\ month = now.month
    /\ use_custom_date = FALSE
    /\ start_date = MkDate(now.year, now.month, 1)
    /\ end_date = MkDate(now.year, now.month, 1)
    /\ fetch_year = now.year
    /\ fetch_month = now.month
    /\ il_holidays = {}
    /\ i = 0
    /\ results = <<>>
    /\ calls = <<>>
    /\ df = <<>>
    /\ shown = <<>>
    /\ summary = NoSummary
    /\ outcome = "none"

\* A press of "Fetch Data": the script runs from the top with the widgets'
\* values; the select boxes stand at the current year and month.
Reset ==
    /\ i' = 0
    /\ results' = <<>>
    /\ calls' = <<>>
    /\ df' = <<>>
    /\ shown' = <<>>
    /\ summary' = NoSummary

PressFetchNoKey ==
    /\ pc = "input"
    /\ \E t \in Clock, custom \in BOOLEAN, sd \in StartDates, ed \in EndDates :
          /\ toordinal(t) >= toordinal(now)
          /\ now' = t
          /\ year' = t.year
          /\ month' = t.month
          /\ use_custom_date' = custom
          /\ start_date' = (IF custom THEN sd ELSE MkDate(t.year, t.month, 1))
          /\ end_date' = (IF custom THEN ed ELSE MkDate(t.year, t.month, 1))
    /\ api_key' = ""
    /\ Reset
    /\ il_holidays' = {}
    /\ outcome' = "no_api_key"
    /\ pc' = "done"
    /\ fetch_year' = now'.year
    /\ fetch_month' = now'.month
    /\ UNCHANGED provider

PressFetch ==
    /\ pc = "input"
    /\ \E t \in Clock, custom \in BOOLEAN, sd \in StartDates, ed \in EndDates :
          /\ toordinal(t) >= toordinal(now)
          /\ now' = t
          /\ year' = t.year
          /\ month' = t.month
          /\ use_custom_date' = custom
          /\ start_date' = (IF custom THEN sd ELSE MkDate(t.year, t.month, 1))
          /\ end_date' = (IF custom THEN ed ELSE MkDate(t.year, t.month, 1))
          /\ fetch_year' = (IF custom THEN sd.year ELSE t.year)
          /\ fetch_month' = (IF custom THEN sd.month ELSE t.month)
    /\ api_key' = "key"
    /\ Reset
    /\ il_holidays' = provider
    /\ outcome' = "none"
    /\ pc' = "fetch_loop"
    /\ UNCHANGED provider

\* One pass of fetch_data's loop over a date that needs no work
SkipDate ==
    /\ pc = "fetch_loop"
    /\ i < Len(date_range(fetch_year, fetch_month, now))
    /\ LET date == date_range(fetch_year, fetch_month, now)[i + 1]
       IN  ~(get_required_hours(date, il_holidays) > 0)
    /\ i' = i + 1
    /\ UNCHANGED <<pc, now, provider, api_key, year, month, use_custom_date,
                   start_date, end_date, fetch_year, fetch_month, il_holidays,
                   results, calls, df, shown, summary, outcome>>

\* One pass of the loop over a date that needs work; the Entry Source answers
FetchDate ==
    /\ pc = "fetch_loop"
    /\ i < Len(date_range(fetch_year, fetch_month, now))
    /\ LET date == date_range(fetch_year, fetch_month, now)[i + 1]
           required_hours == get_required_hours(date, il_holidays)
       IN  /\ required_hours > 0
           /\ \E code \in StatusCodes, body \in EntryLists :
                 LET response == [status_code |-> code,
                                  entries |-> IF code = 200 THEN body ELSE <<>>]
                     got == get_work_hours_and_tasks(response)
                 IN  /\ results' = Append(results,
                                          [Date |-> date, Hours |-> got.Hours,
                                           Tasks |-> got.Tasks,
                                           RequiredHours |-> required_hours])
                     /\ calls' = Append(calls, [date |-> date, reached |-> TRUE,
                                                response |-> response])
    /\ i' = i + 1
    /\ UNCHANGED <<pc, now, provider, api_key, year, month, use_custom_date,
                   start_date, end_date, fetch_year, fetch_month, il_holidays,
                   df, shown, summary, outcome>>

\* One pass of the loop in which requests.get raises (no connection): nothing
\* catches the exception, the script run ends with it
FetchDateUnreachable ==
    /\ pc = "fetch_loop"
    /\ i < Len(date_range(fetch_year, fetch_month, now))
    /\ LET date == date_range(fetch_year, fetch_month, now)[i + 1]
       IN  /\ get_required_hours(date, il_holidays) > 0
           /\ calls' = Append(calls, [date |-> date, reached |-> FALSE,
                                      response |-> [status_code |-> 0,
                                                    entries |-> <<>>]])
    /\ outcome' = "exception"
    /\ pc' = "done"
    /\ UNCHANGED <<now, provider, api_key, year, month, use_custom_date,
                   start_date, end_date, fetch_year, fetch_month, il_holidays,
                   i, results, df, shown, summary>>

\* fetch_data from "if results:" to its return
FetchDataReturn ==
    /\ pc = "fetch_loop"
    /\ i = Len(date_range(fetch_year, fetch_month, now))
    /\ df' = (IF results # <<>> THEN BuildFrame(results) ELSE <<>>)
    /\ pc' = "fetched"
    /\ UNCHANGED <<now, provider, api_key, year, month, use_custom_date,
                   start_date, end_date, fetch_year, fetch_month, il_holidays,
                   i, results, calls, shown, summary, outcome>>

\* main after fetch_data: the custom range filter, then the report or the
\* error message.  pd.DataFrame() has no "Date" column, so the filter raises
\* KeyError on it.
Render ==
    /\ pc = "fetched"
    /\ IF use_custom_date /\ results = <<>>
       THEN /\ shown' = <<>>
            /\ summary' = NoSummary
            /\ outcome' = "exception"
       ELSE LET view == IF use_custom_date
                        THEN FilterRange(df, start_date, end_date)
                        ELSE df
            IN  /\ shown' = view
                /\ summary' = (IF view # <<>> THEN Summarise(view) ELSE NoSummary)
                /\ outcome' = (IF view # <<>> THEN "report" ELSE "error")
    /\ pc' = "done"
    /\ UNCHANGED <<now, provider, api_key, year, month, use_custom_date,
                   start_date, end_date, fetch_year, fetch_month, il_holidays,
                   i, results, calls, df>>

\* The script run is over; the page waits for the next press.  Nothing of the
\* run is kept: every name of the script is bound anew by the next run.
Rerun ==
    /\ pc = "done"
    /\ pc' = "input"
    /\ api_key' = ""
    /\ year' = now.year
    /\ month' = now.month
    /\ use_custom_date' = FALSE
    /\ start_date' = MkDate(now.year, now.month, 1)
    /\ end_date' = MkDate(now.year, now.month, 1)
    /\ fetch_year' = now.year
    /\ fetch_month' = now.month
    /\ il_holidays' = {}
    /\ Reset
    /\ outcome' = "none"
    /\ UNCHANGED <<now, provider>>

Next ==
    \/ Rerun
    \/ PressFetchNoKey
    \/ PressFetch
    \/ SkipDate
    \/ FetchDate
    \/ FetchDateUnreachable
    \/ FetchDataReturn
    \/ Render

Spec == Init /\ [][Next]_vars

\* =================================================================== claims
HalfPastEleven == (23 * SecondsPerHour) \div 2

Rows(seq) == {seq[k] : k \in 1..Len(seq)}

RECURSIVE SumOver(_, _, _)
\* sum of Op over seq[1..k]
SumOver(Op(_), seq, k) == IF k = 0 THEN 0 ELSE SumOver(Op, seq, k - 1) + Op(seq[k])

Worked(row) == IF row.Hours.present THEN row.Hours.value ELSE 0
Difference(row) == row.DailyDifference

\* the run went through fetch_data and main without an exception
Completed == pc = "done" /\ outcome \in {"report", "error"}

\* every duration the Entry Source has delivered in this run is non-negative
NonNegativeDurations ==
    \A c \in Rows(calls) :
        \A e \in Rows(c.response.entries) : e.duration >= 0

IsRestDay(date) == day_name(date) \in {"Friday", "Saturday"}
IsNonReportable(date, hol) == IsRestDay(date) \/ strftime(date) \in hol

\* the dates a request asks for: the month up to today, or the custom span
MonthDates == {MkDate(year, month, d) : d \in 1..DaysInMonth(year, month)}
SpanUniverse == {MkDate(start_date.year, start_date.month, d) :
                    d \in 1..DaysInMonth(start_date.year, start_date.month)}
                \cup {end_date}
SpanDates == {d \in SpanUniverse : /\ toordinal(d) >= toordinal(start_date)
                                   /\ toordinal(d) <= toordinal(end_date)}
RequestedDates == IF use_custom_date THEN SpanDates ELSE MonthDates
\* a span that starts no later than today and does not end before it starts
WellFormedRange ==
    use_custom_date => /\ toordinal(start_date) <= toordinal(now)
                       /\ toordinal(start_date) <= toordinal(end_date)
RequestedUpToToday == {d \in RequestedDates : toordinal(d) <= toordinal(now)}

\* ---------------------------------------------------------------------- C1
\* C1 (as stated): in every delivered sequence, of a month request or of a
\* custom span, the first record has runningBalance = dailyDifference and
\* targetBalance = -requiredHours, every later record adds its own
\* dailyDifference and subtracts its own requiredHours, and the last
\* runningBalance is the sum of dailyDifference over the delivered sequence.
C1_LedgerStartsAtZero ==
    (pc = "done" /\ outcome = "report") =>
        /\ shown[1].RunningBalance = shown[1].DailyDifference
        /\ shown[1].TargetBalance = -shown[1].RequiredHours
        /\ \A k \in 2..Len(shown) :
              /\ shown[k].RunningBalance
                    = shown[k - 1].RunningBalance + shown[k].DailyDifference
              /\ shown[k].TargetBalance
                    = shown[k - 1].TargetBalance - shown[k].RequiredHours
        /\ shown[Len(shown)].RunningBalance = SumOver(Difference, shown, Len(shown))

\* ---------------------------------------------------------------------- C2
\* C2: every record of the frame fetch_data returns, and of the frame main
\* renders, is OK exactly when its worked hours are present and either the
\* running balance is at least the target balance and the hours are at most
\* 11.5, or the running balance is below target and the hours are at least
\* the required hours; otherwise, and always without hours, it is Warning.
C2_StatusContract ==
    \A row \in Rows(df) \cup Rows(shown) :
        /\ row.Status \in {"OK", "Warning"}
        /\ row.Status = "OK" <=>
              /\ row.Hours.present
              /\ \/ (row.RunningBalance >= row.TargetBalance
                     /\ row.Hours.value <= HalfPastEleven)
                 \/ (row.RunningBalance < row.TargetBalance
                     /\ row.Hours.value >= row.RequiredHours)
        /\ ~row.Hours.present => row.Status = "Warning"

\* a frame with a record that is OK while behind target and a record without
\* hours on a day of 8.5 required hours
C2_Witness ==
    /\ \E row \in Rows(df) : row.Status = "OK"
                             /\ row.RunningBalance < row.TargetBalance
    /\ \E row \in Rows(df) : ~row.Hours.present /\ row.Status = "Warning"
                             /\ row.RequiredHours = 17 * 1800
                             /\ row.DailyDifference = -(17 * 1800)

ClaimedHours(date, hol) ==
    IF IsRestDay(date) THEN 0
    ELSE IF strftime(date) \in hol THEN 0
    ELSE IF strftime(NextDay(date)) \in hol THEN 15 * 1800
    ELSE IF day_name(date) = "Thursday" THEN 16 * 1800
    ELSE 17 * 1800

\* the required hours the loop found for the k-th date of its range: those of
\* the record it appended, 0 if it appended none
LoopHours(date) ==
    IF \E row \in Rows(results) : row.Date = date
    THEN (CHOOSE row \in Rows(results) : row.Date = date).RequiredHours
    ELSE 0

C4_PolicyPrecedence ==
    pc \in {"fetch_loop", "fetched"} =>
        \A k \in 1..i :
            LET date == date_range(fetch_year, fetch_month, now)[k]
                h == LoopHours(date)
            IN  /\ h = ClaimedHours(date, il_holidays)
                /\ h \in {0, 15 * 1800, 16 * 1800, 17 * 1800}
                /\ h = 0 <=> IsNonReportable(date, il_holidays)

\* the loop has met a Thursday before a holiday (7.5), a plain weekday (8.5)
\* and a date it skipped
C4_Witness ==
    /\ pc = "fetch_loop"
    /\ \E row \in Rows(results) :
          day_name(row.Date) = "Thursday" /\ row.RequiredHours = 15 * 1800
    /\ \E row \in Rows(results) : row.RequiredHours = 17 * 1800
    /\ day_name(MkDate(2024, 10, 4)) = "Friday"
    /\ i = 4
    /\ Len(results) < i

\* ---------------------------------------------------------------------- C5
\* C5 (as stated): a completed request delivers exactly one record for each
\* reportable date of the requested range (up to today) and none for any
\* other date, in strictly increasing date order, and the Entry Source is
\* invoked only for those dates.
C5_ExactlyTheRequestedDates ==
    (Completed /\ WellFormedRange) =>
        LET wanted == {d \in RequestedUpToToday :
                          ~IsNonReportable(d, il_holidays)}
        IN  /\ {row.Date : row \in Rows(shown)} = wanted
            /\ Len(shown) = Cardinality(wanted)
            /\ \A k \in 2..Len(shown) :
                  toordinal(shown[k - 1].Date) < toordinal(shown[k].Date)
            /\ {c.date : c \in Rows(calls)} = wanted

\* ---------------------------------------------------------------------- C6
\* C6 (as stated): once the Entry Source has failed for a date (unreachable,
\* or a non-success status), the run still goes through all dates and ends
\* with a record for that date that has no worked hours, no task labels,
\* dailyDifference = -requiredHours and status Warning.
FailedCall(c) == ~c.reached \/ c.response.status_code # 200

C6_FailureAbsorbed ==
    (pc = "done" /\ outcome # "no_api_key") =>
        \A c \in Rows(calls) :
            FailedCall(c) =>
                /\ outcome # "exception"
                /\ i = Len(date_range(fetch_year, fetch_month, now))
                /\ \E row \in Rows(df) :
                      /\ row.Date = c.date
                      /\ ~row.Hours.present
                      /\ row.Tasks = <<>>
                      /\ row.DailyDifference = -row.RequiredHours
                      /\ row.Status = "Warning"

\* ---------------------------------------------------------------------- C7
\* C7 (as stated): a request whose range holds no reportable date ends in a
\* success outcome with an empty sequence and zero summary values, never in
\* an error message.
C7_EmptyRangeSucceeds ==
    (/\ pc = "done"
     /\ outcome # "no_api_key"
     /\ \A c \in Rows(calls) : c.reached
     /\ WellFormedRange
     /\ \A d \in RequestedDates : IsNonReportable(d, il_holidays)) =>
        /\ outcome = "report"
        /\ shown = <<>>
        /\ summary = NoSummary

\* ---------------------------------------------------------------------- C8
\* C8 (as stated): a request with at least one reportable date whose every
\* fetch came back with a non-success status ends in the request-level
\* failure outcome, not in a rendered report.
C8_AllFailedIsFailure ==
    (/\ pc = "done"
     /\ calls # <<>>
     /\ i = Len(date_range(fetch_year, fetch_month, now))
     /\ \A c \in Rows(calls) : c.reached /\ c.response.status_code # 200) =>
        outcome = "error"

\* ---------------------------------------------------------------------- C9
\* C9: when no delivered duration is negative, every record i of the frame
\* fetch_data returns has runningBalance - targetBalance equal to the worked
\* hours (absent as 0) summed over records 1..i, so it is never below target,
\* and missingHours is 0 on every record, the last included.
C9_NeverBelowTarget ==
    NonNegativeDurations =>
        \A k \in 1..Len(df) :
            /\ df[k].RunningBalance - df[k].TargetBalance = SumOver(Worked, df, k)
            /\ df[k].RunningBalance >= df[k].TargetBalance
            /\ df[k].MissingHours = 0

\* a frame of several records with nothing worked at all: the balance is
\* negative and still no hours are missing
C9_Witness ==
    /\ NonNegativeDurations
    /\ Len(df) >= 2
    /\ \E k \in 1..Len(df) : ~df[k].Hours.present
    /\ \E k \in 1..Len(df) : df[k].Hours.present /\ df[k].Hours.value = 0
    /\ df[Len(df)].RunningBalance < 0
    /\ SumOver(Worked, df, Len(df)) = 0
    /\ df[Len(df)].MissingHours = 0

\* --------------------------------------------------------------------- C10
\* C10: when no delivered duration is negative, a record of the frame
\* fetch_data returns is OK exactly when its worked hours are present and at
\* most 11.5, whatever its required hours and balances.
C10_StatusIsPresenceAndCap ==
    NonNegativeDurations =>
        \A row \in Rows(df) :
            row.Status = "OK" <=>
                (row.Hours.present /\ row.Hours.value <= HalfPastEleven)

\* a frame with a fetched day of zero hours that is OK, a failed day that is
\* Warning and a day above 11.5 hours that is Warning
C10_Witness ==
    /\ NonNegativeDurations
    /\ \E row \in Rows(df) : row.Hours.present /\ row.Hours.value = 0
                             /\ row.Hours.value < row.RequiredHours
                             /\ row.Status = "OK"
    /\ \E row \in Rows(df) : ~row.Hours.present /\ row.Status = "Warning"
    /\ \E row \in Rows(df) : row.Hours.present /\ row.Hours.value > HalfPastEleven
                             /\ row.Status = "Warning"

====
